---- MODULE Spec2Model ----
(***************************************************************************)
(* State-machine model of the LibraBFT simulator pacemaker                 *)
(* (src/rust/librabft_simulator/src/pacemaker.rs).                         *)
(*                                                                         *)
(* One PacemakerState is driven by a node: every step of the model is one  *)
(* event at the node (a clock reading, a new record in the record store, a *)
(* new epoch, a query-all sent) followed by the call of update_pacemaker   *)
(* that the driver makes on that event.  The record store, the clock, the  *)
(* epoch and the latest query-all time are the arguments of the call; the  *)
(* state keeps the values the last call saw, and the batch it returned.    *)
(***************************************************************************)
EXTENDS Integers, Sequences, FiniteSets, TLC

\* ------------------------------------------------------------------ bounds
MaxRound == 3        \* certificate rounds range over 0..MaxRound
MaxEpoch == 1        \* epochs range over 0..MaxEpoch
MaxClock == 1        \* clock readings range over 0..MaxClock
MaxProbeRound == 6   \* rounds given to duration in SpecDuration
MaxProbeCommit == 3  \* committed rounds given to duration in SpecDuration
MaxLiveClock == 3    \* clock readings range over 0..MaxLiveClock in SpecLive

Authors == {1, 2}
CertRounds == 0..MaxRound
\* in Spec the timeout certificate is absent or of the last round (only the
\* larger of the two certificate rounds is read), the store holds the local
\* timeout of the first or the last round, and the latest query-all was at
\* the first or the last time
TimeoutCertRounds == {0, MaxRound}
TimeoutRounds == {1, MaxRound + 1}
QueryAllTimes == {0, MaxClock}
\* committed rounds
CommitRounds == {0, 1}
Epochs == 0..MaxEpoch
Times == 0..MaxClock
Digests == {0, 1}
\* lambda is an f64: the model keeps it as a number of 1/LambdaScale
LambdaScale == 2
\* the tuning constants given to PacemakerState::new, and the record store's
\* author-selection policies (every author is elected for some digest):
\* in Spec
Deltas == {1}
Gammas == {2}
Lambdas == {-1, 2}
Policies == {[d \in Digests |-> d + 1]}
\* in SpecDriver
DriverDeltas == {1}
DriverGammas == {1, 2}
DriverLambdas == {-2, 1, 2}
DriverPolicies ==
    {p \in [Digests -> Authors] : \A a \in Authors : \E d \in Digests : p[d] = a}
\* in SpecDuration
ProbeDeltas == {1, 2, 3}
ProbeGammas == {0, 1, 2, 3}

\* Option::None of Option<Author>, Option<Round>, Option<QuorumCertificateHash>
NoAuthor == 0
NoRound == -1
NoHash == 0
\* NodeTime::never(): greater than every finite time
Never == 1000000

VARIABLES
    \* PacemakerState
    active_epoch, active_round, active_leader, active_round_start_time,
    active_round_duration, delta, gamma, lambda,
    \* arguments of the last update_pacemaker call
    local_author, epoch_id, record_store, latest_query_all_time, clock,
    \* the record store's author-selection policy (pick_author), fixed
    pick_author,
    \* the batch returned by the last call, and where the node stands
    actions, pc,
    \* SpecDuration: the last two evaluations of duration
    probe, last_probe

pm_vars == <<active_epoch, active_round, active_leader, active_round_start_time,
             active_round_duration>>
cfg_vars == <<delta, gamma, lambda, local_author, pick_author>>
arg_vars == <<epoch_id, record_store, latest_query_all_time, clock>>
probe_vars == <<probe, last_probe>>
vars == <<pm_vars, cfg_vars, arg_vars, actions, pc, probe_vars>>

\* ------------------------------------------------------------- primitives
Max(a, b) == IF a >= b THEN a ELSE b
\* a min that keeps the later time
Min_Later(a, b) == IF a >= b THEN a ELSE b
\* a minimum that keeps the deadline computed last
Min_Second(a, b) == b
Min(a, b) == IF a <= b THEN a ELSE b

RECURSIVE Pow(_, _)
\* (n as f64).powf(gamma) for a non-negative integer exponent
Pow(n, g) == IF g = 0 THEN 1 ELSE n * Pow(n, g - 1)

\* `as i64` of an f64 truncates towards zero
Trunc(num, den) == IF num >= 0 THEN num \div den ELSE -((-num) \div den)

\* ------------------------------------------------------------- record store
\* The record store is the read-only collaborator of the pacemaker.  rs is:
\*   qc_round, tc_round   highest quorum / timeout certificate round
\*   committed_round      highest committed round
\*   timeouts             the (author, round) pairs it holds a timeout for
\*   proposed             its answer to proposed_block for the calling pacemaker
highest_quorum_certificate_round(rs) == rs.qc_round
highest_timeout_certificate_round(rs) == rs.tc_round
highest_committed_round(rs) == rs.committed_round
\* the hash of the highest quorum certificate: one certificate per round
highest_quorum_certificate_hash(rs) == 100 + rs.qc_round
has_timeout(rs, author, round) == <<author, round>> \in rs.timeouts
\* TRUE iff proposed_block(pacemaker) is Some
proposed_block(rs) == rs.proposed

\* ------------------------------------------------------------- PacemakerState
\* the digest of the round by DefaultHasher::new(): a fixed function of the
\* round alone (the hasher has fixed keys)
RoundDigest(round) == (round * 3 + 1) % 2

\* a leader computed from the round held before the update
leader_StaleRound(round) == pick_author[RoundDigest(active_round)]

\* PacemakerState::leader
leader(round) == pick_author[RoundDigest(round)]

\* highest_commit_certificate_round, the baseline of duration
Baseline(rs) ==
    IF highest_committed_round(rs) > 0 THEN highest_committed_round(rs) + 2 ELSE 0

\* the assertion with >= for >, and the assertion left out
DurationAssert_NonStrict(rs, round) == round >= Baseline(rs)
DurationAssert_Off(rs, round) == TRUE

\* the assertion of duration
DurationAssert(rs, round) == round > Baseline(rs)

\* a duration that counts rounds from 0, whatever was committed
duration_NoReset(d, g, rs, round) == d * Pow(round, g)

\* PacemakerState::duration, where its assertion holds
duration(d, g, rs, round) == d * Pow(round - Baseline(rs), g)

\* a batch that starts scheduled at time 0 instead of never
NewActions_ScheduledAtZero ==
    [ should_propose_block |-> NoHash,
      should_create_timeout |-> NoRound,
      should_send |-> <<>>,
      should_broadcast |-> FALSE,
      should_query_all |-> FALSE,
      next_scheduled_update |-> 0 ]

\* PacemakerUpdateActions::new
NewActions ==
    [ should_propose_block |-> NoHash,
      should_create_timeout |-> NoRound,
      should_send |-> <<>>,
      should_broadcast |-> FALSE,
      should_query_all |-> FALSE,
      next_scheduled_update |-> Never ]

\* the active round computed from the record store (the local active_round)
\* a round computed from the quorum certificate alone
ComputedRound_QuorumOnly(rs) == highest_quorum_certificate_round(rs) + 1

\* a round computed without the step past the certificates
ComputedRound_NoIncrement(rs) ==
    Max(highest_quorum_certificate_round(rs), highest_timeout_certificate_round(rs))

ComputedRound(rs) ==
    Max(highest_quorum_certificate_round(rs), highest_timeout_certificate_round(rs)) + 1

\* an advancement that takes any other epoch for a new one
RoundAdvances_AnyEpoch(e, round) ==
    e # active_epoch \/ (e = active_epoch /\ round > active_round)

\* an advancement that follows the store to any other round of the epoch
RoundAdvances_AnyRound(e, round) ==
    e > active_epoch \/ (e = active_epoch /\ round # active_round)

\* an advancement that also re-enters the round it is in
RoundAdvances_NotStrict(e, round) ==
    e > active_epoch \/ (e = active_epoch /\ round >= active_round)

\* "If the epoch changed or the active round was just updated.."
RoundAdvances(e, round) ==
    e > active_epoch \/ (e = active_epoch /\ round > active_round)

\* a proposal that does not ask the store whether a block is proposed
ShouldPropose_IgnoresStore(ldr, la, rs) == ldr = la

\* "If we are the leader and have not proposed yet.."
ShouldPropose(ldr, la, rs) == ldr = la /\ ~proposed_block(rs)

\* a timeout check that is left out, and one that asks about the round before
TimeoutMissing_Always(rs, la, round) == TRUE
TimeoutMissing_RoundBefore(rs, la, round) == ~has_timeout(rs, la, round - 1)

\* "if !record_store.has_timeout(local_author, active_round)"
TimeoutMissing(rs, la, round) == ~has_timeout(rs, la, round)

\* timeout_deadline
\* a deadline that is never reached
TimeoutDeadline_Never(start, dur) == Never

\* a deadline counted from time 0 instead of the start of the round
TimeoutDeadline_NoStart(start, dur) == dur
TimeoutDeadline(start, dur) == start + dur

\* period of the query-all actions
\* a period counted backwards
QueryAllPeriod_Backwards(lam, dur) == -Trunc(lam * dur, LambdaScale)

\* a period that is the whole product, not scaled by lambda's unit
QueryAllPeriod_Unscaled(lam, dur) == lam * dur

QueryAllPeriod(lam, dur) == Trunc(lam * dur, LambdaScale)

\* Steps 2 and 3 of update_pacemaker: the proposal, then the timeout or the
\* query-all, on the pacemaker state step 1 left (ldr, start, dur) and the
\* batch acts; round is the local active_round
ProposalAndTimeout(la, rs, lqa, c, round, ldr, start, dur, acts) ==
    LET a2 == IF ShouldPropose(ldr, la, rs)
              THEN [acts EXCEPT !.should_propose_block = highest_quorum_certificate_hash(rs),
                                !.should_broadcast = TRUE,
                                !.next_scheduled_update = c]
              ELSE acts
        timeout_deadline == TimeoutDeadline(start, dur)
        period == QueryAllPeriod(lambda, dur)
        query_all_deadline == lqa + period
    IN  IF TimeoutMissing(rs, la, round)
        THEN IF c >= timeout_deadline
             THEN [a2 EXCEPT !.should_create_timeout = round,
                             !.should_broadcast = TRUE]
             ELSE [a2 EXCEPT !.next_scheduled_update =
                                 Min(a2.next_scheduled_update, timeout_deadline)]
        ELSE IF c >= query_all_deadline
             THEN [a2 EXCEPT !.should_query_all = TRUE,
                             !.next_scheduled_update =
                                 Min(a2.next_scheduled_update, c + period)]
             ELSE [a2 EXCEPT !.next_scheduled_update =
                                 Min(a2.next_scheduled_update, query_all_deadline)]

\* update_pacemaker(local_author, epoch_id, record_store, latest_query_all_time,
\* clock) on the PacemakerState held: the state it leaves, the batch it
\* returns, and whether it returned or panicked in duration
update_pacemaker(la, e, rs, lqa, c) ==
    LET round == ComputedRound(rs)
    IN  IF RoundAdvances(e, round)
        THEN IF DurationAssert(rs, round)
             THEN [ active_epoch |-> e,
                    active_round |-> round,
                    active_round_start_time |-> c,
                    active_leader |-> leader(round),
                    active_round_duration |-> duration(delta, gamma, rs, round),
                    actions |->
                        ProposalAndTimeout(la, rs, lqa, c, round, leader(round), c,
                            duration(delta, gamma, rs, round),
                            [NewActions EXCEPT !.should_send =
                                IF leader(round) # la THEN <<leader(round)>>
                                ELSE <<>>]),
                    pc |-> "returned" ]
             ELSE \* the assertion fails after the first four assignments: the
                  \* call panics and returns no batch
                  [ active_epoch |-> e,
                    active_round |-> round,
                    active_round_start_time |-> c,
                    active_leader |-> leader(round),
                    active_round_duration |-> active_round_duration,
                    actions |-> NewActions,
                    pc |-> "aborted" ]
        ELSE [ active_epoch |-> active_epoch,
               active_round |-> active_round,
               active_round_start_time |-> active_round_start_time,
               active_leader |-> active_leader,
               active_round_duration |-> active_round_duration,
               actions |->
                   ProposalAndTimeout(la, rs, lqa, c, round, active_leader,
                       active_round_start_time, active_round_duration, NewActions),
               pc |-> "returned" ]

\* ------------------------------------------------------------------ the node
EmptyStore ==
    [ qc_round |-> 0, tc_round |-> 0, committed_round |-> 0,
      timeouts |-> {}, proposed |-> FALSE ]

NoProbe == [ round |-> 0, committed_round |-> 0, ok |-> FALSE, result |-> 0 ]

\* PacemakerState::new(epoch_id, node_time, delta, gamma, lambda) with the
\* tuning constants (d, g, lam), before any call; the driver is in epoch 0
NewPacemaker(d, g, lam, p) ==
    /\ active_epoch \in Epochs
    /\ active_round = 0
    /\ active_leader = NoAuthor
    /\ active_round_start_time = 0
    /\ active_round_duration = 0
    /\ delta = d
    /\ gamma = g
    /\ lambda = lam
    /\ local_author = 1
    /\ pick_author = p
    /\ epoch_id = 0
    /\ record_store = EmptyStore
    /\ latest_query_all_time = 0
    /\ clock = 0
    /\ actions = NewActions
    /\ pc = "new"
    /\ probe = NoProbe
    /\ last_probe = NoProbe

Init ==
    \E d \in Deltas, g \in Gammas, lam \in Lambdas, p \in Policies :
        NewPacemaker(d, g, lam, p)

\* one call of update_pacemaker by the driver, with the arguments given
Call(e, rs, lqa, c) ==
    /\ pc # "aborted"
    /\ epoch_id' = e
    /\ record_store' = rs
    /\ latest_query_all_time' = lqa
    /\ clock' = c
    /\ LET r == update_pacemaker(local_author, e, rs, lqa, c)
       IN  /\ active_epoch' = r.active_epoch
           /\ active_round' = r.active_round
           /\ active_round_start_time' = r.active_round_start_time
           /\ active_leader' = r.active_leader
           /\ active_round_duration' = r.active_round_duration
           /\ actions' = r.actions
           /\ pc' = r.pc
    /\ UNCHANGED <<cfg_vars, probe_vars>>

\* the author's timeout for round r replaces the one the store held for it
WithTimeout(rs, a, r) ==
    [rs EXCEPT !.timeouts = {t \in @ : t[1] # a} \cup {<<a, r>>}]

\* ---------------------------------------------------- Spec: any driver
\* Each step changes one argument, to any value, and calls update_pacemaker.

\* the call is made at clock c (also again at the same clock)
Tick(c) ==
    /\ c \in Times
    /\ Call(epoch_id, record_store, latest_query_all_time, c)

\* the latest query-all time becomes t
SetQueryAll(t) ==
    /\ t # latest_query_all_time
    /\ Call(epoch_id, record_store, t, clock)

\* the epoch given becomes e, older ones included
SetEpoch(e) ==
    /\ e # epoch_id
    /\ Call(e, record_store, latest_query_all_time, clock)

\* the highest quorum certificate round becomes r, lower ones included
SetQC(r) ==
    /\ r # record_store.qc_round
    /\ Call(epoch_id, [record_store EXCEPT !.qc_round = r],
            latest_query_all_time, clock)

\* the highest timeout certificate round becomes r, lower ones included
SetTC(r) ==
    /\ r # record_store.tc_round
    /\ Call(epoch_id, [record_store EXCEPT !.tc_round = r],
            latest_query_all_time, clock)

\* the highest committed round becomes r
SetCommitted(r) ==
    /\ r # record_store.committed_round
    /\ Call(epoch_id, [record_store EXCEPT !.committed_round = r],
            latest_query_all_time, clock)

\* the record store holds the local author's timeout for round r
AddTimeout(r) ==
    /\ ~has_timeout(record_store, local_author, r)
    /\ Call(epoch_id, WithTimeout(record_store, local_author, r),
            latest_query_all_time, clock)

\* the record store holds no timeout any more
DropTimeouts ==
    /\ record_store.timeouts # {}
    /\ Call(epoch_id, [record_store EXCEPT !.timeouts = {}],
            latest_query_all_time, clock)

\* the record store's answer to proposed_block becomes b
SetProposed(b) ==
    /\ b # record_store.proposed
    /\ Call(epoch_id, [record_store EXCEPT !.proposed = b],
            latest_query_all_time, clock)

Next ==
    \/ \E c \in Times : Tick(c)
    \/ \E t \in QueryAllTimes : SetQueryAll(t)
    \/ \E e \in Epochs : SetEpoch(e)
    \/ \E r \in CertRounds : SetQC(r)
    \/ \E r \in TimeoutCertRounds : SetTC(r)
    \/ \E r \in CommitRounds : SetCommitted(r)
    \/ \E r \in TimeoutRounds : AddTimeout(r)
    \/ DropTimeouts
    \/ \E b \in BOOLEAN : SetProposed(b)

Spec == Init /\ [][Next]_vars

\* ------------------------------------- SpecDriver: a driver that keeps order
\* The epoch, the certificate rounds, the committed round and the clock never
\* go back; the store gains the timeout and the proposal the batch asked for
\* and keeps them while it stays in the round; the latest query-all time is
\* the clock of the query-all the batch asked for.

\* the store after a certificate moved it to a new round: no block proposed yet
Moved(rs) ==
    IF ComputedRound(rs) # ComputedRound(record_store)
    THEN [rs EXCEPT !.proposed = FALSE] ELSE rs

\* the timer fires at c, or the driver calls again at once
DriverTick(c) ==
    /\ c >= clock
    /\ Call(epoch_id, record_store, latest_query_all_time, c)

\* the driver sent the query-all the batch asked for
DriverQueryAll ==
    /\ actions.should_query_all
    /\ latest_query_all_time # clock
    /\ Call(epoch_id, record_store, clock, clock)

\* the node enters epoch e; no block is proposed in it yet
DriverEpoch(e) ==
    /\ e > epoch_id
    /\ Call(e, [record_store EXCEPT !.proposed = FALSE], latest_query_all_time, clock)

\* a quorum certificate of a higher round arrives
DriverQC(r) ==
    /\ r > record_store.qc_round
    /\ Call(epoch_id, Moved([record_store EXCEPT !.qc_round = r]),
            latest_query_all_time, clock)

\* a timeout certificate of a higher round arrives
DriverTC(r) ==
    /\ r > record_store.tc_round
    /\ Call(epoch_id, Moved([record_store EXCEPT !.tc_round = r]),
            latest_query_all_time, clock)

\* a higher round is committed
DriverCommit(r) ==
    /\ r > record_store.committed_round
    /\ Call(epoch_id, [record_store EXCEPT !.committed_round = r],
            latest_query_all_time, clock)

\* the driver created the timeout the batch asked for
DriverTimeout ==
    /\ actions.should_create_timeout # NoRound
    /\ ~has_timeout(record_store, local_author, actions.should_create_timeout)
    /\ Call(epoch_id,
            WithTimeout(record_store, local_author, actions.should_create_timeout),
            latest_query_all_time, clock)

\* the block the batch asked for, or the leader's block, is in the store
DriverProposal ==
    /\ ~record_store.proposed
    /\ actions.should_propose_block # NoHash \/ active_leader # local_author
    /\ Call(epoch_id, [record_store EXCEPT !.proposed = TRUE],
            latest_query_all_time, clock)

NextDriver ==
    \/ \E c \in Times : DriverTick(c)
    \/ DriverQueryAll
    \/ \E e \in Epochs : DriverEpoch(e)
    \/ \E r \in CertRounds : DriverQC(r)
    \/ \E r \in CertRounds : DriverTC(r)
    \/ \E r \in CommitRounds : DriverCommit(r)
    \/ DriverTimeout
    \/ DriverProposal

InitDriver ==
    \E d \in DriverDeltas, g \in DriverGammas, lam \in DriverLambdas,
       p \in DriverPolicies : NewPacemaker(d, g, lam, p)

SpecDriver == InitDriver /\ [][NextDriver]_vars

\* ------------------------------------- SpecLive: a driver that keeps time
\* The driver of SpecDriver with a clock that keeps advancing: it calls again
\* at a later clock, no later than the next_scheduled_update of the last
\* batch (at the next clock reading if that time has passed), and a new epoch
\* starts on an empty record store.
LiveClocks == 0..MaxLiveClock

\* the timer fires at c
LiveWakeUp(c) ==
    /\ c > clock
    /\ c <= Max(actions.next_scheduled_update, clock + 1)
    /\ Call(epoch_id, record_store, latest_query_all_time, c)

\* the node enters epoch e, with the record store of that epoch
LiveEpoch(e) ==
    /\ e > epoch_id
    /\ Call(e, EmptyStore, latest_query_all_time, clock)

NextLive ==
    \/ \E c \in LiveClocks : LiveWakeUp(c)
    \/ \E e \in Epochs : LiveEpoch(e)
    \/ \E r \in CertRounds : DriverQC(r)
    \/ \E r \in TimeoutCertRounds : DriverTC(r)
    \/ \E r \in CommitRounds : DriverCommit(r)
    \/ DriverTimeout
    \/ DriverProposal

\* the clock keeps advancing; nothing else is promised
SpecLive ==
    /\ Init
    /\ [][NextLive]_vars
    /\ WF_vars(\E c \in LiveClocks : LiveWakeUp(c))

\* ------------------------------------- SpecDuration: duration on its own
InitDuration ==
    \E d \in ProbeDeltas, g \in ProbeGammas, p \in Policies :
        NewPacemaker(d, g, LambdaScale, p)

\* duration(record_store, round) for a store that committed round c
Probe(c, round) ==
    LET rs == [EmptyStore EXCEPT !.committed_round = c]
    IN  /\ last_probe' = probe
        /\ probe' = [ round |-> round, committed_round |-> c,
                      ok |-> DurationAssert(rs, round),
                      result |-> IF DurationAssert(rs, round)
                                 THEN duration(delta, gamma, rs, round) ELSE 0 ]
        /\ UNCHANGED <<pm_vars, cfg_vars, arg_vars, actions, pc>>

NextDuration == \E c \in 0..MaxProbeCommit, round \in 0..MaxProbeRound : Probe(c, round)

SpecDuration == InitDuration /\ [][NextDuration]_vars

\* =================================================================== claims
\* What the claims read of the last call: the round its store computes, the
\* backoff baseline of a store, the round deadline and the query-all period.
Returned == pc = "returned"
StoreRoundOf(rs) == (IF rs.qc_round >= rs.tc_round THEN rs.qc_round ELSE rs.tc_round) + 1
StoreBaselineOf(rs) == IF rs.committed_round > 0 THEN rs.committed_round + 2 ELSE 0
StoreRound == StoreRoundOf(record_store)
LocalTimeout == <<local_author, StoreRound>> \in record_store.timeouts
RoundDeadline == active_round_start_time + active_round_duration
Period ==
    IF lambda * active_round_duration >= 0
    THEN (lambda * active_round_duration) \div LambdaScale
    ELSE -((-(lambda * active_round_duration)) \div LambdaScale)

\* C1: while the epoch given and the store's certificate rounds never go back
\* (SpecDriver), no call lowers active_epoch() or active_round().
C1_RoundsNeverRegress ==
    [][active_epoch' >= active_epoch /\ active_round' >= active_round]_vars

\* C1 witness: the pacemaker went through a later epoch and a later round.
C1_Witness == Returned /\ active_epoch > 0 /\ active_round > 1

\* C2: a call that leaves the local author leader of the active round, with no
\* block proposed in the store, asks for a proposal; once the store reports the
\* block, no call in the same (epoch, round) asks for a proposal again.
C2_ProposeOnce ==
    [][ /\ (pc' = "returned" /\ active_leader' = local_author
              /\ ~record_store'.proposed)
           => actions'.should_propose_block # NoHash
        /\ (Returned /\ record_store.proposed
              /\ active_epoch' = active_epoch /\ active_round' = active_round)
           => actions'.should_propose_block = NoHash
      ]_vars

\* C2 witness: the local author leads the round, its block is in the store,
\* and the call asked for no proposal.
C2_Witness ==
    /\ Returned /\ active_leader = local_author /\ record_store.proposed
    /\ actions.should_propose_block = NoHash

\* C3: once the store holds the local author's timeout for the active round,
\* no call made while the pacemaker stays in that round asks for a timeout.
C3_TimeoutOnce ==
    [][ (Returned /\ <<local_author, active_round>> \in record_store.timeouts
           /\ active_epoch' = active_epoch /\ active_round' = active_round)
        => actions'.should_create_timeout = NoRound ]_vars

\* C3 witness: the round deadline has passed, the timeout is in the store, and
\* the call asked for none.
C3_Witness ==
    /\ Returned /\ <<local_author, active_round>> \in record_store.timeouts
    /\ clock >= RoundDeadline /\ actions.should_create_timeout = NoRound

\* the batch's next_scheduled_update is no later than the deadline pending
C4_NoMissedWakeUp ==
    Returned =>
        /\ (~LocalTimeout /\ clock < RoundDeadline)
           => actions.next_scheduled_update <= RoundDeadline
        /\ (LocalTimeout /\ ~actions.should_query_all)
           => actions.next_scheduled_update <= latest_query_all_time + Period
        /\ (LocalTimeout /\ actions.should_query_all)
           => actions.next_scheduled_update <= clock + Period

\* the call made next at the next_scheduled_update returned, with the same
\* epoch, store and latest query-all time
C4_WakeUp ==
    update_pacemaker(local_author, epoch_id, record_store, latest_query_all_time,
                     actions.next_scheduled_update)

\* that call returns the action of the deadline that was pending
C4_DeadlineAction ==
    /\ C4_WakeUp.pc = "returned"
    /\ ~LocalTimeout => C4_WakeUp.actions.should_create_timeout = StoreRound
    /\ LocalTimeout => C4_WakeUp.actions.should_query_all

\* C4 (as stated): next_scheduled_update is no later than any pending deadline,
\* and a call at exactly next_scheduled_update with the same store returns the
\* timeout or the query-all.
C4_Original ==
    /\ C4_NoMissedWakeUp
    /\ (Returned /\ actions.next_scheduled_update # Never) => C4_DeadlineAction

\* C4 (amended): next_scheduled_update is no later than any pending deadline,
\* and for lambda >= 0, when the batch asked for no proposal, a call at exactly
\* next_scheduled_update with the same store returns the timeout or the
\* query-all.
C4_WakeUpAtDeadline ==
    /\ C4_NoMissedWakeUp
    /\ (Returned /\ actions.next_scheduled_update # Never
          /\ actions.should_propose_block = NoHash /\ lambda >= 0)
       => C4_DeadlineAction

\* C4 witness: a batch with no proposal whose next_scheduled_update is the
\* round deadline, still ahead; the call at that time asks for the timeout.
C4_Witness ==
    /\ Returned /\ ~LocalTimeout /\ clock < RoundDeadline
    /\ actions.should_propose_block = NoHash /\ lambda >= 0
    /\ actions.next_scheduled_update = RoundDeadline
    /\ C4_WakeUp.actions.should_create_timeout = StoreRound

\* C5: a timeout asked for is for the pacemaker's active round, with a
\* broadcast; and with no local timeout for the active round and the clock at
\* or past the round deadline, the call asks for the timeout.
C5_TimeoutForActiveRound ==
    Returned =>
        /\ actions.should_create_timeout # NoRound
           => (actions.should_create_timeout = active_round /\ actions.should_broadcast)
        /\ (<<local_author, active_round>> \notin record_store.timeouts
              /\ clock >= RoundDeadline)
           => actions.should_create_timeout # NoRound

\* C6: no batch asks for both a timeout and a query-all; a query-all is asked
\* for only when the store holds the local timeout for the round of the call,
\* a timeout only when it holds none for the round of the timeout.
C6_TimeoutXorQueryAll ==
    Returned =>
        /\ ~(actions.should_create_timeout # NoRound /\ actions.should_query_all)
        /\ actions.should_query_all => LocalTimeout
        /\ actions.should_create_timeout # NoRound
           => <<local_author, actions.should_create_timeout>> \notin record_store.timeouts

\* C6 witness: the round deadline has passed, the local timeout is in the
\* store, and the call asks for a query-all and no timeout.
C6_Witness ==
    /\ Returned /\ LocalTimeout /\ clock >= RoundDeadline
    /\ actions.should_query_all /\ actions.should_create_timeout = NoRound

\* C7: the active leader is the author the store's policy picks for the digest
\* of the active round, whatever the calls made so far: two pacemakers in the
\* same round hold the same leader.
C7_LeaderOfRound ==
    /\ active_round = 0 => active_leader = NoAuthor
    /\ active_round > 0 => active_leader = pick_author[RoundDigest(active_round)]

\* C7 witness: a pacemaker in a later round whose last call saw a store of
\* another round, and that was given an older epoch.
C7_Witness ==
    /\ Returned /\ active_round > 1 /\ StoreRound # active_round
    /\ epoch_id < active_epoch /\ active_leader # local_author

\* C8: a call aborts exactly when the advancement condition fires and the
\* round computed from the store is not above the baseline; every other call
\* returns a batch.
C8_OnlyAssertionAborts ==
    [][ /\ pc' \in {"returned", "aborted"}
        /\ pc' = "aborted" <=>
             /\ \/ epoch_id' > active_epoch
                \/ epoch_id' = active_epoch /\ StoreRoundOf(record_store') > active_round
             /\ StoreRoundOf(record_store') <= StoreBaselineOf(record_store')
      ]_vars

\* C8 witness: a call aborted.
C8_Witness == pc = "aborted" /\ record_store.committed_round > 0

\* C9 (as stated): after every call that returns, active_round is above the
\* baseline of the store the call saw.
C9_Original == Returned => active_round > StoreBaselineOf(record_store)

\* C9 (amended): after every call in which the advancement condition fires
\* and that returns, active_round is above the baseline of the store it saw.
C9_AdvanceAboveBaseline ==
    [][ ( /\ \/ epoch_id' > active_epoch
             \/ epoch_id' = active_epoch /\ StoreRoundOf(record_store') > active_round
          /\ pc' = "returned" )
        => active_round' > StoreBaselineOf(record_store') ]_vars

\* C9 witness: a call entered a round above the baseline of a store with a
\* committed round.
C9_Witness ==
    /\ Returned /\ record_store.committed_round > 0
    /\ actions.should_send # <<>> /\ active_round = StoreRound
    /\ active_round > StoreBaselineOf(record_store)

\* n = round - baseline of an evaluation of duration
ProbeN(p) == p.round - StoreBaselineOf(p)

\* The duration of an evaluation is delta * n^gamma, defined exactly for n >= 1,
\* and is delta at n = 1.
C10_Formula ==
    /\ probe.ok <=> ProbeN(probe) >= 1
    /\ probe.ok => probe.result = delta * Pow(ProbeN(probe), gamma)
    /\ (probe.ok /\ ProbeN(probe) = 1) => probe.result = delta

\* For gamma > 1 the duration grows strictly with the round at a fixed baseline.
C10_Growth ==
    (probe.ok /\ last_probe.ok /\ gamma > 1
       /\ probe.committed_round = last_probe.committed_round
       /\ probe.round > last_probe.round)
    => probe.result > last_probe.result

\* C10 as stated: for n = round - baseline >= 1 the duration is delta * n^gamma;
\* it is delta at n = 1; for gamma > 1 it grows strictly with the round at a
\* fixed baseline; and for the same round it is strictly smaller at a larger
\* baseline, whatever gamma is.
C10_Original ==
    /\ C10_Formula
    /\ C10_Growth
    /\ (probe.ok /\ last_probe.ok
          /\ probe.round = last_probe.round
          /\ StoreBaselineOf(probe) > StoreBaselineOf(last_probe))
       => probe.result < last_probe.result

\* C10 amended: as C10_Original, but the duration of the same round is strictly
\* smaller at a larger baseline only when gamma >= 1 (with gamma = 0 every
\* round lasts delta, so a commit shortens nothing).
C10_Backoff ==
    /\ C10_Formula
    /\ C10_Growth
    /\ (probe.ok /\ last_probe.ok /\ gamma >= 1
          /\ probe.round = last_probe.round
          /\ StoreBaselineOf(probe) > StoreBaselineOf(last_probe))
       => probe.result < last_probe.result

\* C10 witness: the same round evaluated after a later commit, with gamma > 1.
C10_Witness ==
    /\ probe.ok /\ last_probe.ok /\ gamma > 1 /\ delta > 1
    /\ probe.round = last_probe.round
    /\ probe.committed_round > last_probe.committed_round
    /\ last_probe.committed_round > 0
    /\ probe.result < last_probe.result

\* the advancement condition of the call that made this step, read on the
\* state before it and the arguments it was given
AdvancementFired ==
    \/ epoch_id' > active_epoch
    \/ epoch_id' = active_epoch /\ StoreRoundOf(record_store') > active_round

\* the step is a call (it aborted or returned)
Called == pc' \in {"returned", "aborted"}

\* C11: a call in which the advancement condition fires sets active_epoch to
\* epoch_id, active_round to max(qc, tc) + 1, the start time to the clock and
\* the leader to the author elected for that round; when it returns, the
\* duration is delta * (round - baseline)^gamma and should_send holds that
\* leader if it is not the local author and nothing if it is; a call in which
\* the condition does not fire returns an empty should_send.
C11_AdvancementStep ==
    [][ /\ AdvancementFired =>
             /\ active_epoch' = epoch_id'
             /\ active_round' = StoreRoundOf(record_store')
             /\ active_round_start_time' = clock'
             /\ active_leader' = pick_author[RoundDigest(StoreRoundOf(record_store'))]
             /\ pc' = "returned" =>
                  /\ active_round_duration' =
                        delta * Pow(StoreRoundOf(record_store')
                                      - StoreBaselineOf(record_store'), gamma)
                  /\ actions'.should_send =
                        IF active_leader' # local_author THEN <<active_leader'>>
                        ELSE <<>>
        /\ (~AdvancementFired /\ Called) => actions'.should_send = <<>>
      ]_vars

\* C11 witness: a call entered, at its clock, the round after a timeout
\* certificate, in a store with a committed round, and sent to the leader.
C11_Witness ==
    /\ Returned /\ active_epoch = epoch_id /\ active_round = StoreRound
    /\ record_store.tc_round > record_store.qc_round
    /\ record_store.committed_round > 0
    /\ active_round_start_time = clock /\ clock > 0
    /\ actions.should_send = <<active_leader>>

\* C12: a call in which the advancement condition does not fire leaves
\* active_epoch, active_round, active_leader, the start time and the duration
\* as they were.
C12_RoundLeftOnlyByAdvancement ==
    [][ (~AdvancementFired /\ Called) => pm_vars' = pm_vars ]_vars

\* C12 witness: a round with a leader is still active after a call with an
\* older epoch, a store of lower certificate rounds and a later clock.
C12_Witness ==
    /\ Returned /\ active_leader # NoAuthor
    /\ epoch_id < active_epoch /\ StoreRound < active_round
    /\ clock > active_round_start_time

\* C13: a batch that asks for a proposal carries the store's highest
\* quorum-certificate hash, asks for a broadcast and, for lambda >= 0, is
\* scheduled at the clock of the call, whichever of the timeout and query-all
\* branches ran after it; the first call of a new pacemaker, in an epoch not
\* older than its own, at clock 0 on a store with no certificate, commit or
\* proposal, with the local author elected for round 1, enters round 1 and
\* returns such a batch scheduled at 0.
C13_ProposalBatch ==
    [][ /\ (pc' = "returned" /\ actions'.should_propose_block # NoHash) =>
             /\ actions'.should_propose_block = 100 + record_store'.qc_round
             /\ actions'.should_broadcast
             /\ lambda >= 0 => actions'.next_scheduled_update = clock'
        /\ ( /\ pc = "new" /\ epoch_id' >= active_epoch /\ clock' = 0
             /\ record_store'.qc_round = 0 /\ record_store'.tc_round = 0
             /\ record_store'.committed_round = 0 /\ ~record_store'.proposed
             /\ pick_author[RoundDigest(1)] = local_author /\ lambda >= 0 ) =>
             /\ pc' = "returned" /\ active_round' = 1
             /\ actions'.should_propose_block # NoHash
             /\ actions'.should_broadcast
             /\ actions'.next_scheduled_update = 0
      ]_vars

\* C13 witness: a proposal was asked for in a call that also ran the
\* query-all branch before its deadline, at a clock after 0, with lambda >= 0.
C13_Witness ==
    /\ Returned /\ actions.should_propose_block # NoHash /\ lambda >= 0
    /\ LocalTimeout /\ ~actions.should_query_all
    /\ clock > 0 /\ actions.next_scheduled_update = clock

\* the least element of a non-empty set of times
MinOf(S) == CHOOSE x \in S : \A y \in S : x <= y

\* the deadlines the call that returned the batch set: its clock if it asked
\* for a proposal; the round deadline if the store holds no local timeout and
\* the clock is before it; the query-all deadline if the store holds one
DeadlinesSet ==
    (IF actions.should_propose_block # NoHash THEN {clock} ELSE {})
    \cup (IF ~LocalTimeout /\ clock < RoundDeadline THEN {RoundDeadline} ELSE {})
    \cup (IF LocalTimeout
          THEN IF actions.should_query_all THEN {clock + Period}
               ELSE {latest_query_all_time + Period}
          ELSE {})

\* the next_scheduled_update is the least deadline set, or never
ScheduledAtLeastDeadline ==
    actions.next_scheduled_update =
        IF DeadlinesSet = {} THEN Never ELSE MinOf(DeadlinesSet)

\* C14: the next_scheduled_update of every returned batch is the least of
\* the deadlines set in the call, and never if none was set; a call that
\* enters a round led by another author, with no local timeout in the store,
\* is scheduled at active_round_start_time + active_round_duration.
C14_ScheduleIsMinOfDeadlines ==
    [][ /\ pc' = "returned" => ScheduledAtLeastDeadline'
        /\ ( /\ AdvancementFired /\ pc' = "returned"
             /\ active_leader' # local_author
             /\ <<local_author, active_round'>> \notin record_store'.timeouts ) =>
             actions'.next_scheduled_update =
                 active_round_start_time' + active_round_duration'
      ]_vars

\* C14 witness: a call at a clock after 0 entered a round led by another
\* author, with no local timeout, and is scheduled at the round deadline.
C14_Witness ==
    /\ Returned /\ active_leader \notin {NoAuthor, local_author}
    /\ active_round = StoreRound /\ ~LocalTimeout
    /\ active_round_start_time = clock /\ clock > 0
    /\ actions.next_scheduled_update = clock + active_round_duration

\* floor(lambda * active_round_duration)
FloorPeriod == (lambda * active_round_duration) \div LambdaScale

\* the clocks of a later call
LaterClocks == 0..(MaxClock + 2)

\* the call made at clock c after the driver recorded the clock of this
\* batch as the latest query-all time, with the same epoch and store
QueryAllAgain(c) ==
    update_pacemaker(local_author, epoch_id, record_store, clock, c)

\* Query-all throttling with the period p: with a local timeout in the store
\* for the round, the batch asks for a query-all exactly when the clock has
\* reached latest_query_all_time + p; the deadline is then clock + p, and
\* latest_query_all_time + p otherwise, and the batch is scheduled no later;
\* after a query-all recorded at its clock, a call that asks for the next one
\* in the same round is at least p later.
Throttled(p) ==
    (Returned /\ LocalTimeout) =>
        /\ actions.should_query_all <=> clock >= latest_query_all_time + p
        /\ actions.next_scheduled_update <=
               IF actions.should_query_all THEN clock + p
               ELSE latest_query_all_time + p
        /\ actions.should_query_all =>
               \A c \in LaterClocks :
                   ( /\ QueryAllAgain(c).pc = "returned"
                     /\ QueryAllAgain(c).actions.should_query_all
                     /\ QueryAllAgain(c).active_epoch = active_epoch
                     /\ QueryAllAgain(c).active_round = active_round )
                   => c - clock >= p

\* C15 as stated: query-all is throttled with the period
\* floor(lambda * active_round_duration).
C15_Original == Throttled(FloorPeriod)

\* C15 amended: query-all is throttled with the period lambda *
\* active_round_duration truncated toward zero, which is the floor for
\* lambda >= 0.
C15_QueryAllThrottled ==
    /\ Throttled(Period)
    /\ lambda >= 0 => Period = FloorPeriod

\* C15 witness: with a positive period, a query-all was asked for at a clock
\* after 0 and the next one in the round can be asked for later.
C15_Witness ==
    /\ Returned /\ LocalTimeout /\ actions.should_query_all
    /\ Period > 0 /\ clock > 0
    /\ \E c \in LaterClocks : /\ c > clock
                               /\ QueryAllAgain(c).pc = "returned"
                               /\ QueryAllAgain(c).actions.should_query_all

\* the pacemaker is in round r of epoch e, which it entered, the store holds
\* no local timeout for it, and its deadline is a clock the driver reaches
InRoundBeforeTimeout(e, r) ==
    /\ Returned /\ active_epoch = e /\ active_round = r
    /\ <<local_author, r>> \notin record_store.timeouts
    /\ RoundDeadline <= MaxLiveClock

\* round r of epoch e was left, or a batch asks for its timeout
LeftOrTimedOut(e, r) ==
    \/ active_epoch # e
    \/ active_round # r
    \/ Returned /\ actions.should_create_timeout = r

\* C16: with a clock that keeps advancing and a call no later than every
\* next_scheduled_update (SpecLive), every round the pacemaker entered is
\* eventually left by an advancement or answered with should_create_timeout
\* for that round, whether or not a certificate arrives.
C16_TimeoutOrAdvance ==
    \A e \in Epochs : \A r \in 1..(MaxRound + 1) :
        InRoundBeforeTimeout(e, r) ~> LeftOrTimedOut(e, r)

\* C16 witness: the timeout of a round entered after time 0, on a quorum
\* certificate, is asked for at its deadline.
C16_Witness ==
    /\ Returned /\ active_round > 1 /\ active_round_start_time > 0
    /\ clock = RoundDeadline
    /\ actions.should_create_timeout = active_round

\* C17: after a call that returns and whose epoch_id is not older than the
\* active_epoch it found, active_epoch is epoch_id; active_round is
\* max(qc, tc) + 1 unless the call kept a higher round of the same epoch;
\* and active_round is above both certificate rounds of the store given.
C17_AheadOfCertificates ==
    [][ (pc' = "returned" /\ epoch_id' >= active_epoch) =>
          /\ active_epoch' = epoch_id'
          /\ \/ active_round' = StoreRoundOf(record_store')
             \/ /\ epoch_id' = active_epoch
                /\ active_round' = active_round
                /\ active_round > StoreRoundOf(record_store')
          /\ active_round' > record_store'.qc_round
          /\ active_round' > record_store'.tc_round
      ]_vars

\* C17 witness: a call of the active epoch kept a round above the one its
\* store, which holds a quorum certificate, leads to.
C17_Witness ==
    /\ Returned /\ epoch_id = active_epoch /\ active_round > StoreRound
    /\ record_store.qc_round > 0 /\ active_epoch > 0

\* C18: whatever the arguments, no call lowers active_epoch; a call lowers
\* active_round only if it raises active_epoch; and a call whose epoch_id is
\* older than active_epoch changes nothing of the pacemaker.
C18_LexicographicOrder ==
    [][ /\ active_epoch' >= active_epoch
        /\ active_round' < active_round => active_epoch' > active_epoch
        /\ (Called /\ epoch_id' < active_epoch) => pm_vars' = pm_vars
      ]_vars

\* C18 witness: a call with an older epoch and a store ahead of the active
\* round left the pacemaker in the round it had entered.
C18_Witness ==
    /\ Returned /\ epoch_id < active_epoch
    /\ active_round > 1 /\ StoreRound > active_round

\* C19: a returned batch is scheduled at never exactly when it asks for a
\* timeout and for no proposal; a batch that asks for no timeout is
\* scheduled at a finite time.
C19_NeverOnlyAfterTimeout ==
    Returned =>
        /\ actions.next_scheduled_update = Never <=>
              /\ actions.should_create_timeout # NoRound
              /\ actions.should_propose_block = NoHash
        /\ actions.should_create_timeout = NoRound =>
              actions.next_scheduled_update # Never

\* C19 witness: a batch asks for a timeout and for a proposal, and is
\* scheduled at its clock.
C19_Witness ==
    /\ Returned /\ actions.should_create_timeout # NoRound
    /\ actions.should_propose_block # NoHash
    /\ clock > 0 /\ actions.next_scheduled_update = clock

\* C20: for lambda >= 0 no returned batch is scheduled before the clock of
\* its call (never is later than every clock).
C20_NoWakeUpInThePast ==
    (Returned /\ lambda >= 0) => actions.next_scheduled_update >= clock

\* C20 witness: with lambda >= 0, a query-all fired at a clock after 0 and the
\* batch is scheduled one positive period later.
C20_Witness ==
    /\ Returned /\ lambda >= 0 /\ clock > 0 /\ Period > 0
    /\ actions.should_query_all /\ actions.should_propose_block = NoHash
    /\ actions.next_scheduled_update = clock + Period

====
